---- MODULE Spec2Model ----
(***************************************************************************)
(* MIFARE Ultralight dump/restore tool (utils/nfc-ctc.c): variant probe,   *)
(* password authentication, bulk read into the dump image, page-wise       *)
(* write-back with the skip policy, and the magic-tag unlock sequence.     *)
(*                                                                         *)
(* Every operation of the tool is one action.  The loops of an operation   *)
(* are recursive operators that thread the operation's locals through a    *)
(* record, one unfolding per loop iteration.  The environment (transceiver *)
(* and tag) answers each command from a script the action chooses with \E. *)
(* `log' is a history variable: every command handed to the transceiver,   *)
(* in order, with its outcome.                                             *)
(***************************************************************************)
EXTENDS Integers, Sequences, FiniteSets

(* ---- program constants ------------------------------------------------ *)
EV1_NONE == 0
EV1_UL11 == 1
EV1_UL21 == 2
NTAG_NONE == 0
NTAG_213 == 1
NTAG_215 == 2
NTAG_216 == 3

DefaultBlocks == 16         \* uiBlocks = 0x10
BlocksUL11 == 20
BlocksUL21 == 41
BlocksNTAG213 == 45
BlocksNTAG215 == 135
BlocksNTAG216 == 231

AtqaUltralight == 68        \* 0x44
DefaultDumpSize == 64       \* sizeof(mifareul_tag): 4 blocks of 16 bytes
DumpBytes == 928            \* sizeof(maxtag): 58 blocks of 16 bytes
BlockBytes == 16            \* one mifareul_block, one MC_READ answer
PageBytes == 4

(* ---- bounds of the model ---------------------------------------------- *)
RxLen == 8                  \* leading bytes of abtRx that are modelled
MaxFail == 2                \* failing commands scripted per loop
ReadFailWindow == 2         \* leading strides on which a read failure may be scripted
WriteFailWindow == 4        \* leading pages on which a write failure may be scripted
MaxDevFaults == 1           \* failing nfc_device_set_property_bool calls per session

Byte == 0..255
Zeros(n) == [i \in 1..n |-> 0]
Range(q) == {q[i] : i \in 1..Len(q)}

(* The 16 bytes of a block as a tuple                                      *)
Block(b) == <<b[1], b[2], b[3], b[4], b[5], b[6], b[7], b[8],
              b[9], b[10], b[11], b[12], b[13], b[14], b[15], b[16]>>

(* The tag's memory: byte at offset off.  Never zero, so that a byte the   *)
(* tool left at its reset value is told apart from a byte read from a tag. *)
TagPattern(off) == ((off * 7) % 251) + 1

(* nfc_initiator_mifare_cmd(MC_READ, page): the 16 bytes from page on; a   *)
(* tag rolls over to page 0 past its last page.                            *)
ReadAnswer(page, blocks) ==
    Block([i \in 1..BlockBytes |->
              TagPattern((page * PageBytes + i - 1) % (blocks * PageBytes))])

(* One entry of the command history.                                       *)
Entry(cmd, page, data, ok, by) ==
    [cmd |-> cmd, page |-> page, data |-> data, ok |-> ok, by |-> by]

VARIABLES
    pc,             \* position in the session
    wait_for_tag,   \* -w
    bPWD, iPWD, iPACK,
    crc, framing,   \* NP_HANDLE_CRC, NP_EASY_FRAMING of the device
    abtRx, szRx,    \* receive buffer (first RxLen bytes) and last byte count
    uiBlocks, iDumpSize, iEV1Type, iNTAGType,
    mtDump,         \* dump image, byte offset 0..DumpBytes-1
    mp,             \* mp.mpd.abtData, 16 bytes
    uiReadPages,
    rd,             \* what read_card returned and counted
    wr,             \* what write_card returned and counted
    call,           \* the last raw-mode operation that returned
    devFaults,      \* failed property sets so far
    atqa,           \* nt.nti.nai.abtAtqa[1] of the selected tag
    exitWhy,        \* why the process ended
    log,
    pwdArg          \* the password text handed to ev1_load_pwd, and its outcome

vars == <<pc, wait_for_tag, bPWD, iPWD, iPACK, crc, framing, abtRx, szRx,
          uiBlocks, iDumpSize, iEV1Type, iNTAGType, mtDump, mp, uiReadPages,
          rd, wr, call, devFaults, atqa, exitWhy, log, pwdArg>>

NoCall == [op |-> "none", ok |-> TRUE, enters |-> 0, exits |-> 0, devFailed |-> FALSE]
NoRead == [done |-> FALSE, ok |-> TRUE, failed |-> 0, failedStrides |-> {}]
NoWrite == [done |-> FALSE, ok |-> TRUE, otp |-> FALSE, lock |-> FALSE, dyn |-> FALSE,
            uid |-> FALSE, magic |-> FALSE, magicOk |-> TRUE, unlocked |-> FALSE,
            written |-> 0, skipped |-> 0, failed |-> 0, skipSet |-> {}, writeSet |-> {},
            aborted |-> FALSE, abortPage |-> -1, logStart |-> 0]

SessionPassword == <<170, 187, 204, 221>>    \* AA BB CC DD, a password held in iPWD

NoPwdArg == [text |-> << >>, loaded |-> "no"]

(* The globals a session does not choose                                   *)
Globals ==
    /\ iPACK = Zeros(2)
    /\ crc = TRUE
    /\ framing = TRUE
    /\ abtRx = Zeros(RxLen)
    /\ szRx = 0
    /\ uiBlocks = DefaultBlocks
    /\ iDumpSize = DefaultDumpSize
    /\ iEV1Type = EV1_NONE
    /\ iNTAGType = NTAG_NONE
    /\ mtDump = [i \in 0..(DumpBytes - 1) |-> 0]
    /\ mp = Zeros(BlockBytes)
    /\ uiReadPages = 0
    /\ rd = NoRead
    /\ wr = NoWrite
    /\ call = NoCall
    /\ devFaults = 0
    /\ atqa = 0
    /\ exitWhy = "running"
    /\ log = <<>>

Init ==
    /\ pc = "start"
    /\ wait_for_tag \in BOOLEAN
    /\ bPWD \in BOOLEAN
    /\ iPWD = IF bPWD THEN SessionPassword ELSE Zeros(4)
    /\ pwdArg = NoPwdArg
    /\ Globals

(* ---- Transceive adapter ----------------------------------------------- *)
(* The adapter context c threaded through a raw-mode operation:            *)
(*   crc, framing  device properties                                       *)
(*   sets          property sets made so far in this operation             *)
(*   failAt        index of the property set that fails (0: none)          *)
(*   enters, exits raw_mode_start / raw_mode_end calls made                *)
(*   abtRx, szRx   receive buffer                                          *)
(*   log           command history                                         *)
Ctx(failAt) ==
    [crc |-> crc, framing |-> framing, sets |-> 0, failAt |-> failAt,
     enters |-> 0, exits |-> 0, devFailed |-> FALSE,
     abtRx |-> abtRx, szRx |-> szRx, log |-> log]

(* nfc_device_set_property_bool: a failing set leaves the property as it was *)
SetProperty(c, prop, val) ==
    LET n == c.sets + 1
        fails == (n = c.failAt)
        c1 == [c EXCEPT !.sets = n, !.devFailed = c.devFailed \/ fails]
    IN  [ok |-> ~fails,
         c  |-> IF fails THEN c1
                ELSE IF prop = "crc" THEN [c1 EXCEPT !.crc = val]
                ELSE [c1 EXCEPT !.framing = val]]

raw_mode_start(c0) ==
    LET c == [c0 EXCEPT !.enters = c0.enters + 1]
        a == SetProperty(c, "crc", FALSE)
    IN  IF ~a.ok THEN [ok |-> FALSE, c |-> a.c]
        ELSE LET b == SetProperty(a.c, "framing", FALSE)
             IN  IF ~b.ok THEN [ok |-> FALSE, c |-> b.c]
                 ELSE [ok |-> TRUE, c |-> b.c]

raw_mode_end(c0) ==
    LET c == [c0 EXCEPT !.exits = c0.exits + 1]
        a == SetProperty(c, "crc", TRUE)
    IN  IF ~a.ok THEN [ok |-> FALSE, c |-> a.c]
        ELSE LET b == SetProperty(a.c, "framing", TRUE)
             IN  IF ~b.ok THEN [ok |-> FALSE, c |-> b.c]
                 ELSE [ok |-> TRUE, c |-> b.c]

(* What the transceiver does with the receive buffer: the answer's bytes   *)
(* overwrite the front of abtRx, the rest of the buffer keeps its content. *)
Receive(buf, resp) ==
    SubSeq([i \in 1..RxLen |-> IF i <= Len(resp) THEN resp[i] ELSE buf[i]], 1, RxLen)

(* An answer of the environment: ok = FALSE is a negative result.          *)
Answer(ok, resp) == [ok |-> ok, resp |-> resp]

transmit_bytes(c, cmd, by, ans) ==
    IF ~ans.ok
    THEN [ok |-> FALSE,
          c  |-> [c EXCEPT !.szRx = -1,
                           !.log = Append(c.log, Entry(cmd, -1, <<>>, FALSE, by))]]
    ELSE [ok |-> TRUE,
          c  |-> [c EXCEPT !.szRx = Len(ans.resp),
                           !.abtRx = Receive(c.abtRx, ans.resp),
                           !.log = Append(c.log, Entry(cmd, -1, <<>>, TRUE, by))]]

(* transmit_bits stores its count in szRxBits, which nothing reads.        *)
transmit_bits(c, cmd, by, ans) ==
    IF ~ans.ok
    THEN [ok |-> FALSE,
          c  |-> [c EXCEPT !.log = Append(c.log, Entry(cmd, -1, <<>>, FALSE, by))]]
    ELSE [ok |-> TRUE,
          c  |-> [c EXCEPT !.abtRx = Receive(c.abtRx, ans.resp),
                           !.log = Append(c.log, Entry(cmd, -1, <<>>, TRUE, by))]]

(* The record an operation leaves in `call' when it returns.               *)
Returned(op, r) ==
    [op |-> op, ok |-> r.ok, enters |-> r.c.enters, exits |-> r.c.exits,
     devFailed |-> r.c.devFailed]

(* A probe that does not test szRx                                          *)
get_ev1_versionAnyLength(c0, ans) ==
    LET s == raw_mode_start(c0)
    IN  IF ~s.ok THEN [ok |-> FALSE, c |-> s.c]
        ELSE LET t == transmit_bytes(s.c, "VERSION", "probe", ans)
             IN  IF ~t.ok
                 THEN [ok |-> FALSE, c |-> raw_mode_end(t.c).c]
                 ELSE LET e == raw_mode_end(t.c)
                      IN  IF ~e.ok THEN [ok |-> FALSE, c |-> e.c]
                          ELSE [ok |-> TRUE, c |-> e.c]

(* ---- Tag probe --------------------------------------------------------- *)
get_ev1_version(c0, ans) ==
    LET s == raw_mode_start(c0)
    IN  IF ~s.ok THEN [ok |-> FALSE, c |-> s.c]
        ELSE LET t == transmit_bytes(s.c, "VERSION", "probe", ans)
             IN  IF ~t.ok
                 THEN [ok |-> FALSE, c |-> raw_mode_end(t.c).c]
                 ELSE LET e == raw_mode_end(t.c)
                      IN  IF ~e.ok THEN [ok |-> FALSE, c |-> e.c]
                          ELSE IF e.c.szRx = 0 THEN [ok |-> FALSE, c |-> e.c]
                          ELSE [ok |-> TRUE, c |-> e.c]

(* main, lines 637-665: the variant selected by byte 6 of the receive      *)
(* buffer.  known = FALSE is the exit(EXIT_FAILURE) branch.                *)
Variant(known, blocks, ev1, ntag) ==
    [known |-> known, blocks |-> blocks, dump |-> blocks * PageBytes,
     ev1 |-> ev1, ntag |-> ntag]

(* A classification that takes an unknown size code for a plain tag       *)
ClassifyLenient(b) ==
    IF b = 11 \/ b = 0 THEN Variant(TRUE, BlocksUL11, EV1_UL11, NTAG_NONE)
    ELSE IF b = 14 THEN Variant(TRUE, BlocksUL21, EV1_UL21, NTAG_NONE)
    ELSE IF b = 15 THEN Variant(TRUE, BlocksNTAG213, EV1_NONE, NTAG_213)
    ELSE IF b = 17 THEN Variant(TRUE, BlocksNTAG215, EV1_NONE, NTAG_215)
    ELSE IF b = 19 THEN Variant(TRUE, BlocksNTAG216, EV1_NONE, NTAG_216)
    ELSE Variant(TRUE, DefaultBlocks, EV1_NONE, NTAG_NONE)

(* A classification that does not accept the size code 0x00               *)
ClassifyNoZero(b) ==
    IF b = 11 THEN Variant(TRUE, BlocksUL11, EV1_UL11, NTAG_NONE)
    ELSE IF b = 14 THEN Variant(TRUE, BlocksUL21, EV1_UL21, NTAG_NONE)
    ELSE IF b = 15 THEN Variant(TRUE, BlocksNTAG213, EV1_NONE, NTAG_213)
    ELSE IF b = 17 THEN Variant(TRUE, BlocksNTAG215, EV1_NONE, NTAG_215)
    ELSE IF b = 19 THEN Variant(TRUE, BlocksNTAG216, EV1_NONE, NTAG_216)
    ELSE Variant(FALSE, DefaultBlocks, EV1_NONE, NTAG_NONE)

Classify(b) ==
    IF b = 11 \/ b = 0 THEN Variant(TRUE, BlocksUL11, EV1_UL11, NTAG_NONE)
    ELSE IF b = 14 THEN Variant(TRUE, BlocksUL21, EV1_UL21, NTAG_NONE)
    ELSE IF b = 15 THEN Variant(TRUE, BlocksNTAG213, EV1_NONE, NTAG_213)
    ELSE IF b = 17 THEN Variant(TRUE, BlocksNTAG215, EV1_NONE, NTAG_215)
    ELSE IF b = 19 THEN Variant(TRUE, BlocksNTAG216, EV1_NONE, NTAG_216)
    ELSE Variant(FALSE, DefaultBlocks, EV1_NONE, NTAG_NONE)

(* ---- Secret manager: authentication ------------------------------------ *)
ev1_pwd_auth(c0, ans) ==
    LET s == raw_mode_start(c0)
    IN  IF ~s.ok THEN [ok |-> FALSE, c |-> s.c]
        ELSE LET t == transmit_bytes(s.c, "PWD_AUTH", "auth", ans)
             IN  IF ~t.ok THEN [ok |-> FALSE, c |-> t.c]
                 ELSE LET e == raw_mode_end(t.c)
                      IN  IF ~e.ok THEN [ok |-> FALSE, c |-> e.c]
                          ELSE [ok |-> TRUE, c |-> e.c]

(* main, line 685: memcpy(iPACK, abtRx, 2)                                  *)
PackFromRx(buf) == <<buf[1], buf[2]>>

(* ---- Magic-tag unlocker ------------------------------------------------ *)
AckFrame == <<10>>

(* An unlock that gives up when the halt frame fails                       *)
unlock_cardHaltChecked(c0, u) ==
    LET s == raw_mode_start(c0)
    IN  IF ~s.ok THEN [ok |-> FALSE, c |-> s.c]
        ELSE LET h == transmit_bytes(s.c, "HALT", "unlock", Answer(u.haltOk, <<>>))
                 a == transmit_bits(h.c, "UNLOCK1", "unlock", Answer(u.bitsOk, AckFrame))
             IN  IF ~h.ok \/ ~a.ok THEN [ok |-> FALSE, c |-> a.c]
                 ELSE LET b == transmit_bytes(a.c, "UNLOCK2", "unlock",
                                              Answer(u.bytesOk, AckFrame))
                      IN  IF ~b.ok THEN [ok |-> FALSE, c |-> b.c]
                          ELSE LET e == raw_mode_end(b.c)
                               IN  IF ~e.ok THEN [ok |-> FALSE, c |-> e.c]
                                   ELSE [ok |-> TRUE, c |-> e.c]

(* u: the answers to halt, the 7-bit frame and the 1-byte frame            *)
unlock_card(c0, u) ==
    LET s == raw_mode_start(c0)
    IN  IF ~s.ok THEN [ok |-> FALSE, c |-> s.c]
        ELSE LET h == transmit_bytes(s.c, "HALT", "unlock", Answer(u.haltOk, <<>>))
                 a == transmit_bits(h.c, "UNLOCK1", "unlock", Answer(u.bitsOk, AckFrame))
             IN  IF ~a.ok THEN [ok |-> FALSE, c |-> a.c]
                 ELSE LET b == transmit_bytes(a.c, "UNLOCK2", "unlock",
                                              Answer(u.bytesOk, AckFrame))
                      IN  IF ~b.ok THEN [ok |-> FALSE, c |-> b.c]
                          ELSE LET e == raw_mode_end(b.c)
                               IN  IF ~e.ok THEN [ok |-> FALSE, c |-> e.c]
                                   ELSE [ok |-> TRUE, c |-> e.c]

(* ---- Page I/O engine: bulk read ---------------------------------------- *)
(* print_success_or_failure: k = [ok, failed], the two counters            *)
print_success_or_failure(bFailure, k) ==
    [ok     |-> k.ok + (IF bFailure THEN 0 ELSE 1),
     failed |-> k.failed + (IF bFailure THEN 1 ELSE 0)]

RECURSIVE CountPages(_, _, _)
CountPages(n, bFailure, k) ==
    IF n = 0 THEN k
    ELSE CountPages(n - 1, bFailure, print_success_or_failure(bFailure, k))

(* A memcpy that always takes the whole answer                             *)
StrideBytesWhole(page, blocks) == BlockBytes

(* line 135: the length of the memcpy of one stride                        *)
StrideBytes(page, blocks) ==
    IF blocks - page < 4 THEN (blocks - page) * PageBytes ELSE BlockBytes

(* line 139: the pages counted for one stride                              *)
StridePages(page, blocks) ==
    IF blocks - page < 4 THEN blocks - page ELSE 4

(* memcpy(dst + off, bytes, n) on the dump image                           *)
RECURSIVE Memcpy(_, _, _, _)
Memcpy(dump, off, bytes, n) ==
    IF n = 0 THEN dump
    ELSE Memcpy([dump EXCEPT ![off + n - 1] = bytes[n]], off, bytes, n - 1)

(* Byte offset of mtDump.ul[b] (16-byte blocks) and of mtDump.nt[p] (pages) *)
UlOffset(b) == b * BlockBytes
NtOffset(p) == p * PageBytes

(* An iteration that stops copying once a stride has failed               *)
ReadStrideSticky(page, r, fs, blocks) ==
    LET ok == page \notin fs
        bF == r.bFailure \/ ~ok
        k  == CountPages(StridePages(page, blocks), bF,
                         [ok |-> r.read, failed |-> r.failed])
    IN  [r EXCEPT
            !.mp = IF ok THEN ReadAnswer(page, blocks) ELSE r.mp,
            !.dump = IF ~bF
                     THEN Memcpy(r.dump, UlOffset(page \div 4), ReadAnswer(page, blocks),
                                 StrideBytes(page, blocks))
                     ELSE r.dump,
            !.bFailure = bF,
            !.read = k.ok,
            !.failed = k.failed,
            !.failedStrides = IF ok THEN r.failedStrides ELSE r.failedStrides \cup {page},
            !.log = Append(r.log, Entry("READ", page, <<>>, ok, "read"))]

(* One iteration of the loop of read_card.  r holds the locals and the     *)
(* globals the loop touches; fs is the set of strides whose read fails.    *)
ReadStride(page, r, fs, blocks) ==
    LET ok == page \notin fs
        bF == r.bFailure \/ ~ok
        k  == CountPages(StridePages(page, blocks), bF,
                         [ok |-> r.read, failed |-> r.failed])
    IN  [r EXCEPT
            !.mp = IF ok THEN ReadAnswer(page, blocks) ELSE r.mp,
            !.dump = IF ok
                     THEN Memcpy(r.dump, UlOffset(page \div 4), ReadAnswer(page, blocks),
                                 StrideBytes(page, blocks))
                     ELSE r.dump,
            !.bFailure = bF,
            !.read = k.ok,
            !.failed = k.failed,
            !.failedStrides = IF ok THEN r.failedStrides ELSE r.failedStrides \cup {page},
            !.log = Append(r.log, Entry("READ", page, <<>>, ok, "read"))]

(* for (page = 0; page < uiBlocks; page += 4): the strides numbered lo..hi-1 *)
(* in ascending order.  The range is halved so that the evaluation nests   *)
(* to a depth of log2 of the iteration count; the order of the iterations  *)
(* is that of the loop.  `left' is tested before the second half starts    *)
(* only to have it evaluated there: an argument is evaluated where it is   *)
(* first used, and the first half would otherwise nest inside the second.  *)
RECURSIVE ReadRange(_, _, _, _, _)
ReadRange(lo, hi, r, fs, blocks) ==
    IF hi <= lo THEN r
    ELSE IF hi = lo + 1 THEN ReadStride(lo * 4, r, fs, blocks)
    ELSE LET mid  == (lo + hi) \div 2
             left == ReadRange(lo, mid, r, fs, blocks)
         IN  IF left.failed >= 0 THEN ReadRange(mid, hi, left, fs, blocks) ELSE left

ReadLoop(r, fs, blocks) == ReadRange(0, (blocks + 3) \div 4, r, fs, blocks)

(* Offsets of the secrets inside their block (mifare.h)                    *)
Mbc11PwdOff == 8
Mbc11PackOff == 12
Mbc21aPwdOff == 12
Mbc21bPackOff == 0

(* The password field taken to lie at page 4                               *)
PwdOffsetPage4(ev1, ntag) ==
    IF ev1 = EV1_UL11 THEN NtOffset(4)
    ELSE IF ev1 = EV1_UL21 THEN UlOffset(9) + Mbc21aPwdOff
    ELSE -1

PwdOffset(ev1, ntag) ==
    IF ev1 = EV1_UL11 THEN UlOffset(4) + Mbc11PwdOff
    ELSE IF ev1 = EV1_UL21 THEN UlOffset(9) + Mbc21aPwdOff
    ELSE -1

PackOffset(ev1, ntag) ==
    IF ev1 = EV1_UL11 THEN UlOffset(4) + Mbc11PackOff
    ELSE IF ev1 = EV1_UL21 THEN UlOffset(9) + Mbc21bPackOff
    ELSE -1

NtPwdOffset(ntag) ==
    IF ntag = NTAG_213 THEN NtOffset(43)
    ELSE IF ntag = NTAG_215 THEN NtOffset(133)
    ELSE IF ntag = NTAG_216 THEN NtOffset(229)
    ELSE -1

NtPackOffset(ntag) ==
    IF ntag = NTAG_213 THEN NtOffset(44)
    ELSE IF ntag = NTAG_215 THEN NtOffset(134)
    ELSE IF ntag = NTAG_216 THEN NtOffset(230)
    ELSE -1

(* lines 147-178: the two switches that copy the secrets into the image    *)
OverlaySecrets(dump, ev1, ntag, pwd, pack) ==
    LET d1 == IF PwdOffset(ev1, ntag) >= 0
              THEN Memcpy(Memcpy(dump, PwdOffset(ev1, ntag), pwd, 4),
                          PackOffset(ev1, ntag), pack, 2)
              ELSE dump
    IN  IF NtPwdOffset(ntag) >= 0
        THEN Memcpy(Memcpy(d1, NtPwdOffset(ntag), pwd, 4), NtPackOffset(ntag), pack, 2)
        ELSE d1

(* The image bytes the overlay writes for a variant                        *)
OverlayBytes(ev1, ntag) ==
    {i \in 0..(DumpBytes - 1) :
        \/ PwdOffset(ev1, ntag) >= 0 /\ i >= PwdOffset(ev1, ntag) /\ i < PwdOffset(ev1, ntag) + 4
        \/ PackOffset(ev1, ntag) >= 0 /\ i >= PackOffset(ev1, ntag) /\ i < PackOffset(ev1, ntag) + 2
        \/ NtPwdOffset(ntag) >= 0 /\ i >= NtPwdOffset(ntag) /\ i < NtPwdOffset(ntag) + 4
        \/ NtPackOffset(ntag) >= 0 /\ i >= NtPackOffset(ntag) /\ i < NtPackOffset(ntag) + 2}

(* read_card's return value                                                 *)
ReadResult(bFailure) == ~bFailure

read_card(dump0, fs) ==
    LET r0 == [dump |-> dump0, mp |-> mp, bFailure |-> FALSE, read |-> uiReadPages,
               failed |-> 0, failedStrides |-> {}, log |-> log]
        r  == ReadLoop(r0, fs, uiBlocks)
    IN  [r EXCEPT !.dump = OverlaySecrets(r.dump, iEV1Type, iNTAGType, iPWD, iPACK)]

(* ---- Magic-tag unlocker: direct-write probe ----------------------------- *)
(* nfc_initiator_mifare_cmd(MC_WRITE, page, &mp): the frame carries all 16 *)
(* bytes of mp.mpd.abtData.                                                *)
SetPage(buf, bytes4) ==
    Block([i \in 1..BlockBytes |-> IF i <= PageBytes THEN bytes4[i] ELSE buf[i]])

(* lines 322-334, one iteration: k = [mp, log, directWrite, stop]          *)
MagicWrite(page, k, original_b0, failAt) ==
    LET data == SetPage(k.mp, [i \in 1..PageBytes |-> original_b0[page * PageBytes + i]])
        ok   == page # failAt
    IN  [mp |-> data,
         log |-> Append(k.log, Entry("WRITE", page, data, ok, "magic")),
         directWrite |-> k.directWrite /\ ok,
         stop |-> ~ok]

RECURSIVE MagicLoop(_, _, _, _)
MagicLoop(page, k, original_b0, failAt) ==
    IF page <= 2 /\ ~k.stop
    THEN MagicLoop(page + 1, MagicWrite(page, k, original_b0, failAt), original_b0, failAt)
    ELSE k

(* e = [readOk, failAt, garbage, u, devFailAt]: the answer to the block    *)
(* read, the page whose self-write fails (3: none), the content of the     *)
(* uninitialised original_b0 when the read failed, the unlock answers.     *)
check_magic(c0, mp0, e, blocks) ==
    LET rdata == ReadAnswer(0, blocks)
        mp1 == IF e.readOk THEN rdata ELSE mp0
        original_b0 == IF e.readOk THEN [i \in 1..12 |-> rdata[i]]
                       ELSE [i \in 1..12 |-> e.garbage]
        k0 == [mp |-> mp1,
               log |-> Append(c0.log, Entry("READ", 0, <<>>, e.readOk, "magic")),
               directWrite |-> e.readOk, stop |-> FALSE]
        k  == MagicLoop(0, k0, original_b0, e.failAt)
        c1 == [c0 EXCEPT !.log = k.log]
    IN  IF k.directWrite
        THEN [ok |-> TRUE, c |-> c1, mp |-> k.mp, unlocked |-> FALSE]
        ELSE LET u == unlock_card(c1, e.u)
             IN  [ok |-> u.ok, c |-> u.c, mp |-> k.mp, unlocked |-> TRUE]

(* ---- Page I/O engine: write-back ---------------------------------------- *)
(* lines 357-389: a flag that was not passed is asked for                   *)
Prompted(flag, answer) == IF ~flag THEN answer ELSE flag

(* line 375: the dynamic-lock question is asked for NTAG and MF0UL21 only   *)
PromptedDyn(flag, answer, ev1, ntag) ==
    IF ~flag /\ (ntag # NTAG_NONE \/ ev1 = EV1_UL21) THEN answer ELSE flag

(* lines 417-420                                                            *)
IsDynLockPage(page, ev1, ntag) ==
    \/ ev1 = EV1_UL21 /\ page = 36
    \/ ntag = NTAG_213 /\ page = 40
    \/ ntag = NTAG_215 /\ page = 130
    \/ ntag = NTAG_216 /\ page = 226

(* A skip policy without the OTP branch                                    *)
SkipPageNoOtp(page, f, ev1, ntag) ==
    \/ ~f.lock /\ page = 2
    \/ IsDynLockPage(page, ev1, ntag) /\ ~f.dyn

(* lines 405-424: the three `continue' branches of the page loop            *)
SkipPage(page, f, ev1, ntag) ==
    \/ ~f.lock /\ page = 2
    \/ page = 3 /\ ~f.otp
    \/ IsDynLockPage(page, ev1, ntag) /\ ~f.dyn

(* A loop that always starts at page 0                                     *)
FirstPageZero(f) == 0

(* lines 391-402: the first page of the loop                                *)
FirstPage(f) == IF ~f.uid THEN 2 ELSE 0

(* A frame taken from the block at the page's index instead of its offset *)
WriteFrameMisaligned(dump, page) ==
    Block([i \in 1..BlockBytes |->
              IF i <= PageBytes
              THEN dump[UlOffset(page \div 4) + (page % 4) + i - 1]
              ELSE 0])

(* lines 438-440: the 16-byte write frame of a page                         *)
WriteFrame(dump, page) ==
    Block([i \in 1..BlockBytes |->
              IF i <= PageBytes
              THEN dump[UlOffset(page \div 4) + (page % 4) * PageBytes + i - 1]
              ELSE 0])

(* A loop that never redoes the anti-collision                             *)
NeverReselect(bFailure) == FALSE

(* line 426: re-select before this write?                                   *)
NeedReselect(bFailure) == bFailure

(* One iteration of the page loop.  w holds the locals; e.failW is the set *)
(* of pages whose write fails, e.reselFailAt the re-selection that fails.  *)
(* skipSeq and writeSeq list the pages skipped and the pages written.      *)
WritePage(page, w, f, e, dump, ev1, ntag) ==
    IF SkipPage(page, f, ev1, ntag)
    THEN [w EXCEPT !.skipped = w.skipped + 1, !.skipSeq = Append(w.skipSeq, page)]
    ELSE LET resel == NeedReselect(w.bFailure)
             n     == IF resel THEN w.resels + 1 ELSE w.resels
             lost  == resel /\ n = e.reselFailAt
             log1  == IF resel
                      THEN Append(w.log, Entry("SELECT", page, <<>>, ~lost, "write"))
                      ELSE w.log
         IN  IF lost
             THEN [w EXCEPT !.resels = n, !.log = log1, !.aborted = TRUE,
                            !.abortPage = page]
             ELSE LET frame == WriteFrame(dump, page)
                      ok    == page \notin e.failW
                      k     == print_success_or_failure(~ok,
                                   [ok |-> w.written, failed |-> w.failed])
                  IN  [w EXCEPT !.resels = n,
                                !.bFailure = ~ok,
                                !.mp = frame,
                                !.log = Append(log1, Entry("WRITE", page, frame, ok, "write")),
                                !.written = k.ok,
                                !.failed = k.failed,
                                !.writeSeq = Append(w.writeSeq, page)]

(* for (page = uiSkippedPages; page < uiBlocks; page++): the pages lo..hi-1 *)
(* in ascending order, halved like the read loop; `return false' inside    *)
(* the loop (aborted) ends it.                                             *)
RECURSIVE WriteRange(_, _, _, _, _, _, _, _)
WriteRange(lo, hi, w, f, e, dump, ev1, ntag) ==
    IF hi <= lo \/ w.aborted THEN w
    ELSE IF hi = lo + 1 THEN WritePage(lo, w, f, e, dump, ev1, ntag)
    ELSE LET mid  == (lo + hi) \div 2
             left == WriteRange(lo, mid, w, f, e, dump, ev1, ntag)
         IN  IF left.aborted THEN left
             ELSE WriteRange(mid, hi, left, f, e, dump, ev1, ntag)

WriteLoop(first, w, f, e, dump, ev1, ntag, blocks) ==
    WriteRange(first, blocks, w, f, e, dump, ev1, ntag)

(* A return value that treats a failed page as fatal                       *)
WriteResultStrict(w) == ~w.aborted /\ w.failed = 0

(* write_card's return value once the loop has ended                        *)
WriteResult(w) == ~w.aborted

(* write_card: f are the flags after the questions                          *)
write_card(c0, f, e) ==
    LET m  == IF f.uid THEN check_magic(c0, mp, e, uiBlocks)
              ELSE [ok |-> TRUE, c |-> c0, mp |-> mp, unlocked |-> FALSE]
        w0 == [bFailure |-> FALSE, written |-> 0, failed |-> 0,
               skipped |-> FirstPage(f), skipSeq |-> [i \in 1..FirstPage(f) |-> i - 1],
               writeSeq |-> <<>>, resels |-> 0, aborted |-> FALSE, abortPage |-> -1,
               mp |-> m.mp, log |-> m.c.log]
        w  == IF m.ok
              THEN WriteLoop(FirstPage(f), w0, f, e, mtDump, iEV1Type, iNTAGType, uiBlocks)
              ELSE w0
    IN  [ok |-> m.ok /\ WriteResult(w), magicOk |-> m.ok, unlocked |-> m.unlocked,
         c |-> [m.c EXCEPT !.log = w.log], w |-> w]

(* ---- The environment's scripts ------------------------------------------ *)
Script(failAt, ans) == [failAt |-> failAt, ans |-> ans]

NoAnswer == Answer(FALSE, <<>>)
EmptyAnswer == Answer(TRUE, <<>>)

(* GET_VERSION answers: 8 bytes, byte 6 is the storage size code           *)
VersionFrame(b) == <<0, 4, 3, 1, 1, 0, b, 3>>
ShortVersionFrame == <<0, 4>>
SupportedBytes == {0, 11, 14, 15, 17, 19}
VersionAnswers == {EmptyAnswer, Answer(TRUE, ShortVersionFrame)}
                    \cup {Answer(TRUE, VersionFrame(b)) : b \in Byte}

(* A device fault is scripted together with a few representative answers.  *)
ProbeScripts ==
    {Script(0, a) : a \in VersionAnswers \cup {NoAnswer}}
      \cup {Script(f, a) : f \in 1..4,
                           a \in {NoAnswer, EmptyAnswer, Answer(TRUE, VersionFrame(11)),
                                  Answer(TRUE, VersionFrame(15))}}

QuietProbeScripts ==
    {Script(0, a) : a \in {EmptyAnswer} \cup
                          {Answer(TRUE, VersionFrame(b)) : b \in SupportedBytes \ {0}}}

(* PWD_AUTH answers: PACK and the two CRC bytes raw mode hands over        *)
PackFrame == <<238, 255, 18, 52>>
AuthAnswers == {NoAnswer, EmptyAnswer, Answer(TRUE, <<238>>), Answer(TRUE, PackFrame)}
AuthScripts == {Script(f, a) : f \in 0..4, a \in AuthAnswers}
QuietAuthScripts == {Script(0, Answer(TRUE, PackFrame))}

AtqaValues == {AtqaUltralight, 4}

Strides(blocks) == {p \in 0..(blocks - 1) : p % 4 = 0}

ReadFailSets(blocks) ==
    {fs \in SUBSET {p \in Strides(blocks) : p < ReadFailWindow * 4 \/ p + 4 >= blocks} :
        Cardinality(fs) <= MaxFail}

QuietReadFailSets(blocks) == {{}}

(* ---- main --------------------------------------------------------------- *)
(* lines 602-624: select a tag (polling under -w) and test its ATQA         *)
SelectTag(founds) ==
    /\ pc = "start"
    /\ \E found \in founds, a \in AtqaValues :
        IF ~found /\ wait_for_tag
        THEN UNCHANGED vars
        ELSE /\ log' = Append(log, Entry("SELECT", -1, <<>>, found, "main"))
             /\ wait_for_tag' = IF found THEN FALSE ELSE wait_for_tag
             /\ atqa' = IF found THEN a ELSE atqa
             /\ pc' = IF found /\ a = AtqaUltralight THEN "selected" ELSE "exit_failure"
             /\ exitWhy' = IF ~found THEN "NoTag"
                           ELSE IF a # AtqaUltralight THEN "NotUltralightTag"
                           ELSE exitWhy
             /\ UNCHANGED <<pwdArg, bPWD, iPWD, iPACK, crc, framing, abtRx, szRx, uiBlocks,
                            iDumpSize, iEV1Type, iNTAGType, mtDump, mp, uiReadPages,
                            rd, wr, call, devFaults>>

DevFaultAllowed(failAt) == failAt = 0 \/ devFaults < MaxDevFaults

AdapterVars(r, op) ==
    /\ crc' = r.c.crc
    /\ framing' = r.c.framing
    /\ abtRx' = r.c.abtRx
    /\ szRx' = r.c.szRx
    /\ call' = Returned(op, r)
    /\ devFaults' = devFaults + (IF r.c.devFailed THEN 1 ELSE 0)

(* lines 633-674: version probe, classification, re-selection               *)
Probe(scripts, resels) ==
    /\ pc = "selected"
    /\ \E sc \in scripts, resel \in resels :
        /\ DevFaultAllowed(sc.failAt)
        /\ \E r \in {get_ev1_version(Ctx(sc.failAt), sc.ans)} :
           \E v \in {Classify(r.c.abtRx[7])} :
               /\ AdapterVars(r, "get_ev1_version")
               /\ IF r.ok
                  THEN /\ log' = r.c.log
                       /\ IF v.known
                          THEN /\ uiBlocks' = v.blocks
                               /\ iDumpSize' = v.dump
                               /\ iEV1Type' = IF v.ev1 # EV1_NONE THEN v.ev1 ELSE iEV1Type
                               /\ iNTAGType' = IF v.ntag # NTAG_NONE THEN v.ntag ELSE iNTAGType
                               /\ pc' = "probed"
                               /\ exitWhy' = exitWhy
                          ELSE /\ pc' = "exit_failure"
                               /\ exitWhy' = "UnknownVariant"
                               /\ UNCHANGED <<uiBlocks, iDumpSize, iEV1Type, iNTAGType>>
                  ELSE /\ log' = Append(r.c.log, Entry("SELECT", -1, <<>>, resel, "main"))
                       /\ pc' = IF resel THEN "probed" ELSE "exit_failure"
                       /\ exitWhy' = IF resel THEN exitWhy ELSE "NoTag"
                       /\ UNCHANGED <<uiBlocks, iDumpSize, iEV1Type, iNTAGType>>
    /\ UNCHANGED <<pwdArg, wait_for_tag, bPWD, iPWD, iPACK, mtDump, mp, uiReadPages, rd, wr, atqa>>

(* lines 676-687: EV1 login                                                 *)
Authenticate(scripts) ==
    /\ pc = "probed"
    /\ IF ~bPWD
       THEN /\ pc' = "authed"
            /\ UNCHANGED <<iPACK, crc, framing, abtRx, szRx, call, devFaults, exitWhy, log>>
       ELSE \E sc \in scripts :
            /\ DevFaultAllowed(sc.failAt)
            /\ \E r \in {ev1_pwd_auth(Ctx(sc.failAt), sc.ans)} :
                   /\ AdapterVars(r, "ev1_pwd_auth")
                   /\ log' = r.c.log
                   /\ pc' = IF r.ok THEN "authed" ELSE "exit_failure"
                   /\ exitWhy' = IF r.ok THEN exitWhy ELSE "AuthFailed"
                   /\ iPACK' = IF r.ok THEN PackFromRx(r.c.abtRx) ELSE iPACK
    /\ UNCHANGED <<pwdArg, wait_for_tag, bPWD, iPWD, uiBlocks, iDumpSize, iEV1Type, iNTAGType,
                   mtDump, mp, uiReadPages, rd, wr, atqa>>

(* lines 689-692: reset the image and read the tag                          *)
ReadCard(failSets) ==
    /\ pc = "authed"
    /\ \E fs \in failSets :
        \E r \in {read_card([i \in 0..(DumpBytes - 1) |-> 0], fs)} :
            /\ mtDump' = r.dump
            /\ mp' = r.mp
            /\ uiReadPages' = r.read
            /\ log' = r.log
            /\ rd' = [done |-> TRUE, ok |-> ReadResult(r.bFailure), failed |-> r.failed,
                      failedStrides |-> r.failedStrides]
    /\ pc' = "read_done"
    /\ UNCHANGED <<pwdArg, wait_for_tag, bPWD, iPWD, iPACK, crc, framing, abtRx, szRx, uiBlocks,
                   iDumpSize, iEV1Type, iNTAGType, wr, call, devFaults, atqa, exitWhy>>

(* lines 719-721: close the device and leave                                *)
Exit ==
    /\ pc = "read_done"
    /\ pc' = "exit_success"
    /\ exitWhy' = "done"
    /\ UNCHANGED <<pwdArg, wait_for_tag, bPWD, iPWD, iPACK, crc, framing, abtRx, szRx, uiBlocks,
                   iDumpSize, iEV1Type, iNTAGType, mtDump, mp, uiReadPages, rd, wr, call,
                   devFaults, atqa, log>>

Next ==
    \/ SelectTag(BOOLEAN)
    \/ Probe(ProbeScripts, BOOLEAN)
    \/ Authenticate(AuthScripts)
    \/ ReadCard(ReadFailSets(uiBlocks))
    \/ Exit

Spec == Init /\ [][Next]_vars

(* ---- The restore session: write_card after the read --------------------- *)
(* How a write permission reaches write_card: passed as an argument, or    *)
(* not passed and answered at the question.                                *)
FlagRequests == {"arg", "yes", "no"}
Passed(x) == x = "arg"
Answered(x) == x = "yes"

(* The flags the page loop runs with, over every way of requesting them    *)
Flags(ev1, ntag) ==
    {[otp  |-> Prompted(Passed(xo), Answered(xo)),
      lock |-> Prompted(Passed(xl), Answered(xl)),
      dyn  |-> PromptedDyn(Passed(xd), Answered(xd), ev1, ntag),
      uid  |-> Prompted(Passed(xu), Answered(xu))] :
        xo \in FlagRequests, xl \in FlagRequests, xd \in FlagRequests, xu \in FlagRequests}

GarbageBytes == {0, 165}

Unlock(haltOk, bitsOk, bytesOk) == [haltOk |-> haltOk, bitsOk |-> bitsOk, bytesOk |-> bytesOk]
NoMagic == [readOk |-> TRUE, failAt |-> 3, garbage |-> 0, u |-> Unlock(TRUE, TRUE, TRUE),
            devFailAt |-> 0]

B2N(b) == IF b THEN 1 ELSE 0

MagicFaults(m) ==
    B2N(~m.readOk) + B2N(m.failAt < 3) + B2N(~m.u.haltOk) + B2N(~m.u.bitsOk)
      + B2N(~m.u.bytesOk) + B2N(m.devFailAt > 0)

(* The scripts of the unlocker with at most MaxFail faults; components the  *)
(* run never consults are held at one value.                                *)
MagicEnvs ==
    {m \in [readOk : BOOLEAN, failAt : 0..3, garbage : GarbageBytes,
            u : [haltOk : BOOLEAN, bitsOk : BOOLEAN, bytesOk : BOOLEAN],
            devFailAt : 0..4] :
        /\ MagicFaults(m) <= MaxFail
        /\ m.readOk => m.garbage = 0
        /\ (m.readOk /\ m.failAt = 3) => (m.u = NoMagic.u /\ m.devFailAt = 0)}

(* The scripts of the page loop with at most `budget' faults                *)
LoopEnvs(blocks, budget) ==
    {l \in [failW : SUBSET {p \in 0..(blocks - 1) : p < WriteFailWindow \/ p = blocks - 1},
            reselFailAt : 0..MaxFail] :
        /\ Cardinality(l.failW) + B2N(l.reselFailAt > 0) <= budget
        /\ l.reselFailAt <= Cardinality(l.failW)}

WriteCard ==
    /\ pc = "read_done"
    /\ \E f \in Flags(iEV1Type, iNTAGType) :
            \E m \in IF f.uid THEN MagicEnvs ELSE {NoMagic} :
            \E l \in LoopEnvs(uiBlocks, MaxFail - MagicFaults(m)) :
                /\ DevFaultAllowed(m.devFailAt)
                /\ \E r \in {write_card(Ctx(m.devFailAt), f,
                                      [readOk |-> m.readOk, failAt |-> m.failAt,
                                       garbage |-> m.garbage, u |-> m.u,
                                       failW |-> l.failW, reselFailAt |-> l.reselFailAt])} :
                       /\ crc' = r.c.crc
                       /\ framing' = r.c.framing
                       /\ abtRx' = r.c.abtRx
                       /\ szRx' = r.c.szRx
                       /\ devFaults' = devFaults + B2N(r.c.devFailed)
                       /\ call' = IF r.unlocked
                                  THEN [op |-> "unlock_card", ok |-> r.magicOk,
                                        enters |-> r.c.enters, exits |-> r.c.exits,
                                        devFailed |-> r.c.devFailed]
                                  ELSE call
                       /\ log' = r.c.log
                       /\ mp' = r.w.mp
                       /\ wr' = [done |-> TRUE, ok |-> r.ok, otp |-> f.otp, lock |-> f.lock,
                                 dyn |-> f.dyn, uid |-> f.uid, magic |-> f.uid,
                                 magicOk |-> r.magicOk, unlocked |-> r.unlocked,
                                 written |-> r.w.written, skipped |-> r.w.skipped,
                                 failed |-> r.w.failed, skipSet |-> Range(r.w.skipSeq),
                                 writeSet |-> Range(r.w.writeSeq), aborted |-> r.w.aborted,
                                 abortPage |-> r.w.abortPage, logStart |-> Len(log)]
    /\ pc' = "write_done"
    /\ UNCHANGED <<pwdArg, wait_for_tag, bPWD, iPWD, iPACK, uiBlocks, iDumpSize, iEV1Type, iNTAGType,
                   mtDump, uiReadPages, rd, atqa, exitWhy>>

(* The restore session: a session without transceiver faults up to the end *)
(* of the read, then write_card.                                           *)
NextW ==
    \/ SelectTag({TRUE})
    \/ Probe(QuietProbeScripts, {TRUE})
    \/ Authenticate(QuietAuthScripts)
    \/ ReadCard(QuietReadFailSets(uiBlocks))
    \/ WriteCard

SpecW == Init /\ [][NextW]_vars

(* ---- Secret manager: password text ------------------------------------- *)
(* A text is a sequence of one-character strings.                          *)
LowerHex == <<"0", "1", "2", "3", "4", "5", "6", "7", "8", "9",
              "a", "b", "c", "d", "e", "f">>
UpperHex == <<"A", "B", "C", "D", "E", "F">>

IsHexDigit(ch) == ch \in Range(LowerHex) \cup Range(UpperHex)

HexVal(ch) ==
    IF ch \in Range(LowerHex)
    THEN (CHOOSE i \in 1..16 : LowerHex[i] = ch) - 1
    ELSE (CHOOSE i \in 1..6 : UpperHex[i] = ch) + 9

(* sscanf(pwd, "%2x%2x%2x%2x", ...): each directive takes one or two hex   *)
(* digits from the current position; the first directive that finds none   *)
(* ends the scan.  k = [pos, tmp]: the position reached and the values      *)
(* stored so far, whose number is sscanf's result.  The texts here hold no  *)
(* white space, sign or 0x prefix, which the directive would also accept.   *)
RECURSIVE Sscanf2x(_, _, _)
Sscanf2x(pwd, n, k) ==
    IF n = 0 \/ k.pos > Len(pwd) \/ ~IsHexDigit(pwd[k.pos]) THEN k
    ELSE IF k.pos + 1 <= Len(pwd) /\ IsHexDigit(pwd[k.pos + 1])
    THEN Sscanf2x(pwd, n - 1,
                  [pos |-> k.pos + 2,
                   tmp |-> Append(k.tmp, 16 * HexVal(pwd[k.pos]) + HexVal(pwd[k.pos + 1]))])
    ELSE Sscanf2x(pwd, n - 1,
                  [pos |-> k.pos + 1, tmp |-> Append(k.tmp, HexVal(pwd[k.pos]))])

ev1_load_pwd(target, pwd) ==
    LET k == Sscanf2x(pwd, 4, [pos |-> 1, tmp |-> << >>])
    IN  IF Len(k.tmp) # 4 THEN [ok |-> FALSE, target |-> target]
        ELSE [ok |-> TRUE, target |-> [i \in 1..4 |-> k.tmp[i] % 256]]

(* The texts tried: every text of up to MaxText characters over a lower    *)
(* case digit, an upper case digit and a letter that is no hex digit, and  *)
(* two texts with decimal digits.                                          *)
MaxText == 8
TextChars == {"a", "B", "g"}
SampleTexts == {<<"1", "a", "2", "B", "3", "c", "4", "D">>,
                <<"1", "a", "2", "b", "3", "c">>,
                <<"1", "a", "2", "b", "3", "c", "4">>}
Texts == UNION {[1..n -> TextChars] : n \in 0..MaxText} \cup SampleTexts

InitP ==
    /\ pc = "args"
    /\ wait_for_tag = FALSE
    /\ bPWD = FALSE
    /\ iPWD = Zeros(4)
    /\ pwdArg \in {[text |-> t, loaded |-> "no"] : t \in Texts}
    /\ Globals

LoadPassword ==
    /\ pc = "args"
    /\ \E r \in {ev1_load_pwd(iPWD, pwdArg.text)} :
        /\ iPWD' = r.target
        /\ pwdArg' = [pwdArg EXCEPT !.loaded = IF r.ok THEN "ok" ELSE "bad"]
    /\ pc' = "args_done"
    /\ UNCHANGED <<wait_for_tag, bPWD, iPACK, crc, framing, abtRx, szRx, uiBlocks,
                   iDumpSize, iEV1Type, iNTAGType, mtDump, mp, uiReadPages, rd, wr, call,
                   devFaults, atqa, exitWhy, log>>

NextP == LoadPassword

SpecP == InitP /\ [][NextP]_vars

(* ======================================================================== *)
(* Properties                                                               *)
(* ======================================================================== *)
(* The commands of the write session, and those of its page loop           *)
WriteLog == SubSeq(log, wr.logStart + 1, Len(log))
ByLoop(e) == e.by = "write"
ByUnlocker(e) == e.by = "magic" \/ e.by = "unlock"
LoopLog == SelectSeq(WriteLog, ByLoop)
IsWrite(e) == e.cmd = "WRITE"
PageWrites == SelectSeq(WriteLog, IsWrite)
LoopWrites == SelectSeq(LoopLog, IsWrite)

(* The pages the page loop went through: all of them, or those before the  *)
(* page at which the loop was left.                                        *)
LoopPages ==
    IF ~wr.magicOk THEN {}
    ELSE IF wr.aborted THEN 0..(wr.abortPage - 1)
    ELSE 0..(uiBlocks - 1)

(* C1: in a whole write session no page-write goes to page 2 unless        *)
(* write-lock was requested and none to page 3 unless write-OTP was.       *)
C1_LockOtpProtected ==
    wr.done =>
        \A i \in 1..Len(PageWrites) :
            /\ PageWrites[i].page = 2 => wr.lock
            /\ PageWrites[i].page = 3 => wr.otp

(* C2: a page of the loop is skipped, with no command sent for it, exactly *)
(* when the skip policy names it; every other page is written; without     *)
(* write-UID the unlocker is not run.                                      *)
DynamicLockPage ==
    IF iEV1Type = EV1_UL21 THEN 36
    ELSE IF iNTAGType = NTAG_213 THEN 40
    ELSE IF iNTAGType = NTAG_215 THEN 130
    ELSE IF iNTAGType = NTAG_216 THEN 226
    ELSE -1

PolicySkips(p) ==
    \/ p \in {0, 1} /\ ~wr.uid
    \/ p = 2 /\ ~wr.lock
    \/ p = 3 /\ ~wr.otp
    \/ p = DynamicLockPage /\ ~wr.dyn

C2_SkipPolicy ==
    wr.done =>
        \E touched \in {{LoopLog[i].page : i \in DOMAIN LoopLog}} :
        \E written \in {{LoopWrites[i].page : i \in DOMAIN LoopWrites}} :
        \E unlocker \in {SelectSeq(WriteLog, ByUnlocker)} :
            /\ \A p \in LoopPages :
                /\ p \in wr.skipSet <=> PolicySkips(p)
                /\ p \notin wr.skipSet <=> p \in wr.writeSet
                /\ p \in wr.skipSet => p \notin touched
                /\ p \in wr.writeSet => p \in written
            /\ ~wr.uid => (~wr.magic /\ unlocker = << >>)

C2_Witness ==
    /\ wr.done /\ ~wr.aborted /\ wr.uid /\ ~wr.dyn /\ wr.lock /\ ~wr.otp
    /\ iNTAGType = NTAG_215
    /\ wr.skipSet = {3, 130}

(* C3: when get_ev1_version, ev1_pwd_auth or unlock_card has returned,     *)
(* CRC handling and easy framing are both enabled again, or at least every *)
(* raw_mode_start was followed by a raw_mode_end that the device refused.  *)
C3_RawModeRestored ==
    call.op # "none" =>
        \/ crc /\ framing
        \/ call.devFailed /\ call.exits = call.enters

(* C4: when write-UID is requested and the unlocker fails, write_card      *)
(* fails and no page of the tag was written in the session.                *)
C4_NoWriteBeforeUnlockFailure ==
    (wr.done /\ wr.uid /\ ~wr.magicOk) =>
        /\ ~wr.ok
        /\ \A i \in 1..Len(PageWrites) : ~PageWrites[i].ok

(* C5: in the page loop a failed page-write is followed by a re-selection  *)
(* before any further page-write; a failed re-selection ends the loop and  *)
(* fails write_card; a re-selection only ever follows a failed page-write. *)
C5_ReselectAfterFailure ==
    wr.done =>
        \E L \in {LoopLog} :
            \A i \in 1..Len(L) :
                /\ (L[i].cmd = "WRITE" /\ i > 1) => L[i - 1].ok
                /\ L[i].cmd = "SELECT" =>
                        /\ i > 1
                        /\ L[i - 1].cmd = "WRITE"
                        /\ ~L[i - 1].ok
                /\ (L[i].cmd = "SELECT" /\ ~L[i].ok) =>
                        /\ i = Len(L)
                        /\ ~wr.ok
                /\ (L[i].cmd = "WRITE" /\ ~L[i].ok /\ i < Len(L)) =>
                        L[i + 1].cmd = "SELECT"

C5_Witness ==
    /\ wr.done /\ ~wr.ok /\ wr.written >= 1 /\ wr.failed = 1
    /\ Len(LoopLog) >= 3
    /\ LoopLog[Len(LoopLog)].cmd = "SELECT"
    /\ ~LoopLog[Len(LoopLog)].ok

(* C6: write_card returns success whenever its page loop was not left      *)
(* through a failed re-selection, however many page-writes failed.         *)
LeftByTagLost ==
    /\ Len(LoopLog) > 0
    /\ LoopLog[Len(LoopLog)].cmd = "SELECT"
    /\ ~LoopLog[Len(LoopLog)].ok

C6_SuccessUnlessTagLost ==
    (wr.done /\ wr.magicOk /\ ~LeftByTagLost) => wr.ok

C6_Witness ==
    /\ wr.done /\ wr.ok /\ wr.failed = 2
    /\ LoopLog[Len(LoopLog)].cmd = "WRITE"
    /\ LoopLog[Len(LoopLog)].page = uiBlocks - 1
    /\ ~LoopLog[Len(LoopLog)].ok

(* C7, as stated: after a read without failures, a write session with all *)
(* four permissions and no failed command sends exactly page_count         *)
(* page-writes, one per page in order, each frame carrying the image's     *)
(* four bytes of the page followed by twelve zero bytes.                   *)
RoundTrip ==
    /\ rd.done /\ rd.ok /\ wr.done
    /\ wr.uid /\ wr.lock /\ wr.otp /\ wr.dyn
    /\ \A i \in 1..(Len(log) - wr.logStart) : log[wr.logStart + i].ok

ImageFrame(p) ==
    <<mtDump[p * 4], mtDump[p * 4 + 1], mtDump[p * 4 + 2], mtDump[p * 4 + 3],
      0, 0, 0, 0, 0, 0, 0, 0, 0, 0, 0, 0>>

OnePerPage(W) ==
    /\ Len(W) = uiBlocks
    /\ \A i \in 1..Len(W) : W[i].page = i - 1 /\ W[i].data = ImageFrame(i - 1)

C7_RoundTripSession ==
    RoundTrip => \E W \in {PageWrites} : OnePerPage(W) /\ wr.skipSet = {}

(* C7, amended: under the same conditions the page loop sends exactly      *)
(* page_count page-writes, one per page in order with the frames above and *)
(* no skip; before them the unlocker has sent three page-writes, to pages  *)
(* 0, 1 and 2, so that the session sends page_count + 3.                   *)
C7_RoundTripLoop ==
    RoundTrip =>
        \E W \in {LoopWrites} : \E S \in {PageWrites} :
            /\ OnePerPage(W)
            /\ wr.skipSet = {} /\ wr.skipped = 0 /\ wr.written = uiBlocks
            /\ Len(S) = uiBlocks + 3
            /\ \A i \in 1..3 : S[i].by = "magic" /\ S[i].page = i - 1
            /\ \A i \in 1..uiBlocks : S[i + 3] = W[i]

C7_Witness ==
    /\ RoundTrip /\ iNTAGType = NTAG_216 /\ bPWD
    /\ Len(LoopWrites) = BlocksNTAG216

(* C8: a full version response is classified by its byte 6: 0x0b or 0x00   *)
(* MF0UL11 with 20 pages, 0x0e MF0UL21 with 41, 0x0f NTAG213 with 45, 0x11 *)
(* NTAG215 with 135, 0x13 NTAG216 with 231, any other value ends the       *)
(* session; the dump size is four times the page count and at most one of  *)
(* the two types is set.                                                   *)
Classified(blocks, ev1, ntag) ==
    /\ pc # "exit_failure" /\ exitWhy # "UnknownVariant"
    /\ uiBlocks = blocks /\ iEV1Type = ev1 /\ iNTAGType = ntag

C8_Classification ==
    /\ iDumpSize = uiBlocks * 4
    /\ iEV1Type = EV1_NONE \/ iNTAGType = NTAG_NONE
    /\ exitWhy = "UnknownVariant" =>
            (pc = "exit_failure" /\ abtRx[7] \notin {0, 11, 14, 15, 17, 19})
    /\ (call.op = "get_ev1_version" /\ call.ok /\ szRx >= 7) =>
            \E b \in {abtRx[7]} :
                IF b = 11 \/ b = 0 THEN Classified(20, EV1_UL11, NTAG_NONE)
                ELSE IF b = 14 THEN Classified(41, EV1_UL21, NTAG_NONE)
                ELSE IF b = 15 THEN Classified(45, EV1_NONE, NTAG_213)
                ELSE IF b = 17 THEN Classified(135, EV1_NONE, NTAG_215)
                ELSE IF b = 19 THEN Classified(231, EV1_NONE, NTAG_216)
                ELSE pc = "exit_failure" /\ exitWhy = "UnknownVariant"

C8_Witness ==
    /\ call.op = "get_ev1_version" /\ call.ok /\ szRx >= 7
    /\ abtRx[7] = 0 /\ pc = "probed"
    /\ uiBlocks = 20 /\ iDumpSize = 80 /\ iEV1Type = EV1_UL11

(* C9: the session ends with AuthFailed whenever the PWD_AUTH exchange     *)
(* failed or returned no byte, and a session that went past authentication *)
(* holds as PACK two bytes the PWD_AUTH response carried.                  *)
IsFailedAuth(e) == e.cmd = "PWD_AUTH" /\ ~e.ok

C9_AuthNeedsResponse ==
    /\ SelectSeq(log, IsFailedAuth) # << >> => exitWhy = "AuthFailed"
    /\ (call.op = "ev1_pwd_auth" /\ szRx = 0) => exitWhy = "AuthFailed"
    /\ (call.op = "ev1_pwd_auth" /\ call.ok) => szRx >= 2

(* C10: read_card sends one block-read per stride, in order, whatever      *)
(* failed before; outside the overlaid secrets the image holds zero at the *)
(* bytes of a failed stride and the tag's bytes at those of a successful   *)
(* one; read_card succeeds exactly when no stride failed.                  *)
ByRead(e) == e.by = "read"

C10_ReadStrides ==
    rd.done =>
        \E R \in {SelectSeq(log, ByRead)} :
        \E ov \in {OverlayBytes(iEV1Type, iNTAGType)} :
            /\ Len(R) = (uiBlocks + 3) \div 4
            /\ \A i \in 1..Len(R) :
                /\ R[i].cmd = "READ" /\ R[i].page = 4 * (i - 1)
                /\ \A k \in 0..15 :
                    \E off \in {16 * (i - 1) + k} :
                        (off < uiBlocks * 4 /\ off \notin ov) =>
                            mtDump[off] = IF R[i].ok THEN TagPattern(off) ELSE 0
            /\ rd.ok <=> \A i \in 1..Len(R) : R[i].ok
            /\ rd.failedStrides = {R[i].page : i \in {j \in 1..Len(R) : ~R[j].ok}}

C10_Witness ==
    /\ rd.done /\ ~rd.ok /\ iEV1Type = EV1_UL21
    /\ rd.failedStrides = {0, 40}
    /\ mtDump[0] = 0 /\ mtDump[16] = TagPattern(16) /\ mtDump[160] = 0

(* C11, as stated: a probe that got no response byte leaves the type NONE  *)
(* and 16 pages and is followed at once by a re-selection, whose failure   *)
(* ends the session; a probe that got a response sends no re-selection and *)
(* takes the variant from byte 6 of a full response.                       *)
ProbeStep == pc = "selected" /\ pc' # "selected"

IsSelect(e) == e.cmd = "SELECT"
AddedLog == SubSeq(log', Len(log) + 1, Len(log'))

ReselectedAsNone ==
    /\ uiBlocks' = DefaultBlocks /\ iDumpSize' = DefaultDumpSize
    /\ iEV1Type' = EV1_NONE /\ iNTAGType' = NTAG_NONE
    /\ Len(AddedLog) >= 1
    /\ \E last \in {AddedLog[Len(AddedLog)]} :
        /\ last.cmd = "SELECT"
        /\ \A i \in 1..(Len(AddedLog) - 1) : AddedLog[i].cmd = "VERSION"
        /\ pc' = IF last.ok THEN "probed" ELSE "exit_failure"
        /\ ~last.ok => exitWhy' = "NoTag"

CatalogPages(b) ==
    IF b = 11 \/ b = 0 THEN 20
    ELSE IF b = 14 THEN 41
    ELSE IF b = 15 THEN 45
    ELSE IF b = 17 THEN 135
    ELSE IF b = 19 THEN 231
    ELSE -1

ClassifiedByResponse ==
    /\ SelectSeq(AddedLog, IsSelect) = << >>
    /\ szRx' >= 7 =>
        IF CatalogPages(abtRx'[7]) > 0
        THEN pc' = "probed" /\ uiBlocks' = CatalogPages(abtRx'[7])
        ELSE pc' = "exit_failure" /\ exitWhy' = "UnknownVariant"

C11_ProbeOutcome ==
    [][ProbeStep => IF szRx' <= 0 THEN ReselectedAsNone ELSE ClassifiedByResponse]_vars

(* C11, amended: the same, where the second case is a response returned by *)
(* a probe whose raw-mode switches all succeeded; a probe that met a       *)
(* refused switch is treated like one without response.                    *)
C11_ProbeOutcomeHealthy ==
    [][ProbeStep => IF szRx' <= 0 \/ call'.devFailed
                    THEN ReselectedAsNone ELSE ClassifiedByResponse]_vars

C11_Witness ==
    /\ call.op = "get_ev1_version" /\ ~call.ok /\ ~call.devFailed /\ szRx = 0
    /\ pc = "probed" /\ uiBlocks = DefaultBlocks /\ iEV1Type = EV1_NONE
    /\ Len(log) = 3 /\ log[2].cmd = "VERSION" /\ log[2].ok
    /\ log[3].cmd = "SELECT" /\ log[3].ok

(* C12: after a read_card run without a supplied password, or on a tag of  *)
(* type NONE, every byte of the image is the byte read from the tag, or    *)
(* zero where the stride failed or nothing was read.                       *)
AsRead(off) ==
    IF off < uiBlocks * PageBytes /\ (off \div BlockBytes) * 4 \notin rd.failedStrides
    THEN TagPattern(off)
    ELSE 0

C12_NoOverlayWithoutPassword ==
    (rd.done /\ (~bPWD \/ (iEV1Type = EV1_NONE /\ iNTAGType = NTAG_NONE))) =>
        \A off \in 0..(DumpBytes - 1) : mtDump[off] = AsRead(off)

(* C13: ev1_load_pwd succeeds exactly on the texts of eight hex digits,    *)
(* then stores the four bytes they spell, in either case of the letters;   *)
(* on every other text it fails and leaves the target as it was.           *)
EightHexDigits(t) == Len(t) = 8 /\ \A i \in 1..8 : IsHexDigit(t[i])

Spelled(t) == [i \in 1..4 |-> 16 * HexVal(t[2 * i - 1]) + HexVal(t[2 * i])]

C13_ParsePassword ==
    pwdArg.loaded # "no" =>
        IF EightHexDigits(pwdArg.text)
        THEN pwdArg.loaded = "ok" /\ iPWD = Spelled(pwdArg.text)
        ELSE pwdArg.loaded = "bad" /\ iPWD = Zeros(4)

(* C14: a selected tag whose ATQA byte is not 0x44, and a tag whose version *)
(* response carries an unknown size code, end the session with no          *)
(* PWD_AUTH, block read or page write in its history, and the first        *)
(* without a version query either.                                         *)
IsMemoryIO(e) == e.cmd \in {"PWD_AUTH", "READ", "WRITE"}
IsVersion(e) == e.cmd = "VERSION"

C14_AbortBeforeIO ==
    /\ (atqa # 0 /\ atqa # AtqaUltralight) =>
            /\ pc = "exit_failure" /\ exitWhy = "NotUltralightTag"
            /\ SelectSeq(log, IsVersion) = << >>
    /\ (call.op = "get_ev1_version" /\ call.ok /\ szRx >= 7
          /\ abtRx[7] \notin {0, 11, 14, 15, 17, 19}) =>
            pc = "exit_failure" /\ exitWhy = "UnknownVariant"
    /\ exitWhy \in {"NotUltralightTag", "UnknownVariant"} =>
            pc = "exit_failure" /\ SelectSeq(log, IsMemoryIO) = << >>

C14_Witness ==
    /\ exitWhy = "UnknownVariant" /\ pc = "exit_failure"
    /\ abtRx[7] = 18 /\ bPWD
    /\ Len(log) = 2 /\ log[2].cmd = "VERSION" /\ log[2].ok

(* C15, as stated: on an MF0UL11 read without failed stride, with password *)
(* AA BB CC DD and PACK EE FF, the dump size is 80, page 4 of the image    *)
(* holds the password and page 5 starts with the PACK.                     *)
Ul11ReadWithSecrets ==
    /\ rd.done /\ rd.ok /\ iEV1Type = EV1_UL11 /\ uiBlocks = BlocksUL11
    /\ iPWD = <<170, 187, 204, 221>> /\ iPACK = <<238, 255>>

ImageAt(off, n) == [i \in 1..n |-> mtDump[off + i - 1]]
TagAt(off, n) == [i \in 1..n |-> TagPattern(off + i - 1)]

PagesOfStride(p) == IF uiBlocks - p < 4 THEN uiBlocks - p ELSE 4

RECURSIVE PagesOf(_)
PagesOf(S) ==
    IF S = {} THEN 0
    ELSE LET p == CHOOSE x \in S : TRUE
         IN  PagesOfStride(p) + PagesOf(S \ {p})

C16_PerStrideCounters ==
    rd.done =>
        /\ rd.failed = PagesOf(rd.failedStrides)
        /\ uiReadPages = PagesOf(Strides(uiBlocks) \ rd.failedStrides)
        /\ uiReadPages + rd.failed = uiBlocks

(* C17: when the block read that opens check_magic fails, check_magic      *)
(* sends no page-write before the unlock sequence, and a page-write of     *)
(* check_magic always carries the bytes read from the tag.                 *)
ByMagic(e) == e.by = "magic"

C17_NoWriteAfterFailedRead ==
    wr.done =>
        \E M \in {SelectSeq(WriteLog, ByMagic)} :
            \A i \in 1..Len(M) :
                M[i].cmd = "WRITE" =>
                    /\ M[1].cmd = "READ" /\ M[1].ok
                    /\ \A k \in 1..4 : M[i].data[k] = TagPattern(4 * M[i].page + k - 1)

(* C18, as stated: check_magic succeeds without the unlock sequence exactly *)
(* when its read and its three page-writes succeeded; otherwise it sends   *)
(* halt, the 7-bit frame, and the 1-byte frame only after the 7-bit frame  *)
(* went through, and succeeds only if both went through, whatever became   *)
(* of the halt.                                                            *)
ByUnlock(e) == e.by = "unlock"

DirectWrite(M) ==
    /\ Len(M) = 4 /\ M[1].cmd = "READ"
    /\ \A i \in 1..4 : M[i].ok
    /\ \A i \in 2..4 : M[i].cmd = "WRITE" /\ M[i].page = i - 2

UnlockSequence(U) ==
    /\ Len(U) >= 2 /\ U[1].cmd = "HALT" /\ U[2].cmd = "UNLOCK1"
    /\ Len(U) = IF U[2].ok THEN 3 ELSE 2
    /\ Len(U) = 3 => U[3].cmd = "UNLOCK2"
    /\ wr.magicOk => (Len(U) = 3 /\ U[2].ok /\ U[3].ok)
    /\ (Len(U) = 3 /\ U[3].ok /\ ~call.devFailed) => wr.magicOk
    /\ call.op = "unlock_card" /\ call.enters = 1

C18_UnlockSequence ==
    (wr.done /\ wr.uid) =>
        \E M \in {SelectSeq(WriteLog, ByMagic)} :
        \E U \in {SelectSeq(WriteLog, ByUnlock)} :
            IF DirectWrite(M)
            THEN wr.magicOk /\ U = << >>
            ELSE UnlockSequence(U)

(* C18, amended: the same, except that an unlock sequence whose            *)
(* raw_mode_start is refused by the device sends no frame and fails.       *)
C18_UnlockSequenceEntered ==
    (wr.done /\ wr.uid) =>
        \E M \in {SelectSeq(WriteLog, ByMagic)} :
        \E U \in {SelectSeq(WriteLog, ByUnlock)} :
            IF DirectWrite(M)
            THEN wr.magicOk /\ U = << >>
            ELSE IF U = << >>
            THEN /\ ~wr.magicOk /\ call.op = "unlock_card" /\ call.devFailed
                 /\ call.enters = 1 /\ call.exits = 0
            ELSE UnlockSequence(U)

C18_Witness ==
    /\ wr.done /\ wr.uid /\ wr.magicOk /\ wr.unlocked
    /\ \E U \in {SelectSeq(WriteLog, ByUnlock)} :
        /\ Len(U) = 3
        /\ ~U[1].ok /\ U[2].ok /\ U[3].ok

(* C19: the stride at page p copies min(4, page_count - p) * 4 bytes to    *)
(* image offset p * 4, so no image byte at or past page_count * 4 is       *)
(* touched; with 41 pages the stride at page 40 copies 4 bytes, with 16 or *)
(* 20 pages every stride copies 16.                                        *)
CopyLen(p, pages) == (IF pages - p < 4 THEN pages - p ELSE 4) * 4

C19_StrideCopy ==
    rd.done =>
        \E R \in {SelectSeq(log, ByRead)} :
        \E ov \in {OverlayBytes(iEV1Type, iNTAGType)} :
            /\ \A i \in 1..Len(R) :
                \E p \in {R[i].page} :
                \E n \in {CopyLen(p, uiBlocks)} :
                    /\ StrideBytes(p, uiBlocks) = n
                    /\ uiBlocks \in {16, 20} => n = 16
                    /\ (uiBlocks = 41 /\ p = 40) => n = 4
                    /\ R[i].ok =>
                        \A k \in 0..(n - 1) :
                            (4 * p + k) \notin ov => mtDump[4 * p + k] = TagPattern(4 * p + k)
            /\ \A off \in (4 * uiBlocks)..(DumpBytes - 1) : mtDump[off] = 0

C19_Witness ==
    /\ rd.done /\ uiBlocks = 41 /\ 40 \notin rd.failedStrides
    /\ mtDump[163] = TagPattern(163) /\ mtDump[164] = 0
    /\ ReadAnswer(40, 41)[5] # 0

(* C20: a write_card that ran its page loop to the end has                 *)
(* written + skipped + failed = page_count, skipped is the size of the     *)
(* skip set, and every other page is counted once, as written or as        *)
(* failed; an NTAG213 with lock and dynamic-lock bytes requested, OTP and  *)
(* UID not, and no failure skips pages 0, 1, 3, writes pages 2 and 0x28,   *)
(* and ends with written = 42, skipped = 3.                                *)
SkipSet == {p \in 0..(uiBlocks - 1) : PolicySkips(p)}

C20_PageAccounting ==
    (wr.done /\ wr.magicOk /\ ~wr.aborted) =>
        \E LW \in {LoopWrites} :
        \E skip \in {SkipSet} :
            /\ wr.written + wr.skipped + wr.failed = uiBlocks
            /\ wr.skipped = Cardinality(skip)
            /\ wr.skipSet = skip
            /\ Len(LW) = uiBlocks - Cardinality(skip)
            /\ {LW[i].page : i \in DOMAIN LW} = (0..(uiBlocks - 1)) \ skip
            /\ wr.written = Cardinality({i \in DOMAIN LW : LW[i].ok})
            /\ wr.failed = Cardinality({i \in DOMAIN LW : ~LW[i].ok})
            /\ (iNTAGType = NTAG_213 /\ ~wr.otp /\ wr.lock /\ wr.dyn /\ ~wr.uid
                    /\ wr.failed = 0) =>
                   /\ uiBlocks = 45
                   /\ skip = {0, 1, 3}
                   /\ {2, 40} \subseteq {LW[i].page : i \in DOMAIN LW}
                   /\ wr.written = 42 /\ wr.skipped = 3

C20_Witness ==
    /\ wr.done /\ wr.magicOk /\ ~wr.aborted
    /\ iNTAGType = NTAG_213 /\ ~wr.otp /\ wr.lock /\ wr.dyn /\ ~wr.uid
    /\ wr.failed = 0 /\ wr.written = 42 /\ wr.skipped = 3

C20_WitnessFailed ==
    /\ wr.done /\ wr.magicOk /\ ~wr.aborted /\ wr.uid
    /\ wr.failed = 2 /\ wr.skipped = 1 /\ wr.written = uiBlocks - 3

(* C21: a version response of 1 to 6 bytes selects no variant: byte 6 of   *)
(* the receive buffer was not received, so the types stay NONE and the     *)
(* page count stays at its default.                                        *)
ShortResponse == szRx' > 0 /\ szRx' < 7

C21_ClassifiedFromReceivedBytes ==
    [][(ProbeStep /\ ShortResponse) =>
          /\ iEV1Type' = EV1_NONE /\ iNTAGType' = NTAG_NONE
          /\ uiBlocks' = DefaultBlocks /\ iDumpSize' = DefaultDumpSize]_vars

====
